---- MODULE Spec2Model ----
(***************************************************************************)
(* Model of the public state transition engine of nssa (V01State) and of   *)
(* the data it works on.  One call of transition_from_public_transaction   *)
(* is one step; the record of the call (transaction, outcome, store before *)
(* the call) stays visible until the caller takes the result.              *)
(***************************************************************************)
EXTENDS Integers, Naturals, Sequences, FiniteSets, TLC

(***************************************************************************)
(* Bounds of the model.                                                    *)
(***************************************************************************)
\* largest nonce a transaction carries
MaxNonce == 1
\* largest amount a transaction carries
MaxAmount == 1

(***************************************************************************)
(* Keys, addresses, program identifiers.                                   *)
(***************************************************************************)
PublicKeys == {"k1", "k2"}

Addresses == {"a1", "a2", "a3"}

\* Address::from_public_key: a collision-free digest of the key.  "a3" is an
\* address nobody in the model holds a key for.
from_public_key(public_key) ==
    IF public_key = "k1" THEN "a1" ELSE "a2"

AUTHENTICATED_TRANSFER_PROGRAM_ID == "authenticated_transfer"

DEFAULT_PROGRAM_ID == "default"

OTHER_PROGRAM_ID == "other"

ProgramIds == {AUTHENTICATED_TRANSFER_PROGRAM_ID, OTHER_PROGRAM_ID}

\* longest message.addresses: the two accounts of a transfer, or fewer
MaxAddrs == Cardinality(Addresses) - 1

\* longest witness set and longest message.nonces: every key signs
MaxSigners == Cardinality(PublicKeys)

\* Account::default()
AccountDefault ==
    [balance |-> 0, nonce |-> 0, program_owner |-> DEFAULT_PROGRAM_ID, data |-> <<>>]

(***************************************************************************)
(* Transactions.                                                           *)
(***************************************************************************)
SeqsUpTo(S, n) == UNION {[1..k -> S] : k \in 0..n}

\* A signature is known by the private key that made it over the message of
\* the transaction that carries it.
Signatures == [signer : PublicKeys]

WitnessEntries == [signature : Signatures, public_key : PublicKeys]

Messages ==
    [program_id : ProgramIds,
     addresses : SeqsUpTo(Addresses, MaxAddrs),
     nonces : SeqsUpTo(0..MaxNonce, MaxSigners),
     instruction_data : 0..MaxAmount]

WitnessSets == SeqsUpTo(WitnessEntries, MaxSigners)

PublicTransactions == [message : Messages, witness_set : WitnessSets]

\* what call_tx and replay hold while there is no transaction to hold
NoTx ==
    [message |-> [program_id |-> "none", addresses |-> <<>>, nonces |-> <<>>,
                  instruction_data |-> 0],
     witness_set |-> <<>>]

\* Signature::is_valid_for
is_valid_for(signature, message, public_key) ==
    signature.signer = public_key

Range(s) == {s[i] : i \in DOMAIN s}

\* PublicTransaction::signer_addresses
signer_addresses(tx) ==
    {from_public_key(tx.witness_set[i].public_key) : i \in DOMAIN tx.witness_set}

(***************************************************************************)
(* The account store.                                                      *)
(***************************************************************************)
\* V01State::get_account_by_address
get_account_by_address(state, address) ==
    IF address \in DOMAIN state THEN state[address] ELSE AccountDefault

RECURSIVE SumBalances(_, _)
SumBalances(accounts, i) ==
    IF i > Len(accounts) THEN 0
    ELSE accounts[i].balance + SumBalances(accounts, i + 1)

(***************************************************************************)
(* The built-in program and the constraint validator.                      *)
(***************************************************************************)
\* Whether the program of the build breaks its contract and returns fewer
\* post-states than it was given pre-states.
VARIABLE faulty_program

\* execute_public::<AuthenticatedTransferProgram>
execute_public(pre_states, instruction_data) ==
    IF Len(pre_states) # 2 THEN [ok |-> FALSE, post_states |-> <<>>]
    ELSE IF ~pre_states[1].is_authorized THEN [ok |-> FALSE, post_states |-> <<>>]
    ELSE IF pre_states[1].account.balance < instruction_data
        THEN [ok |-> FALSE, post_states |-> <<>>]
    ELSE IF faulty_program
        THEN [ok |-> TRUE,
              post_states |->
                << [pre_states[1].account EXCEPT !.balance = @ - instruction_data] >>]
    ELSE [ok |-> TRUE,
          post_states |->
            << [pre_states[1].account EXCEPT !.balance = @ - instruction_data],
               [pre_states[2].account EXCEPT !.balance = @ + instruction_data] >>]

\* nssa_core::program::validate_constraints
validate_constraints(pre_states, post_states, program_id) ==
    SumBalances([i \in DOMAIN pre_states |-> pre_states[i].account], 1)
        = SumBalances(post_states, 1)

(***************************************************************************)
(* execute_and_verify_public_transaction.                                  *)
(* Besides Ok(state_diff) or Err(()), the result records how far the call  *)
(* got: the return statement it left by (stage), how many signatures it    *)
(* verified, how many stored nonces it read, and the numbers of pre-states *)
(* and post-states it handed to validate_constraints (validated; <<>> if   *)
(* it did not call it).                                                    *)
(***************************************************************************)
Rejected(stage, sigs, reads) ==
    [ok |-> FALSE, stage |-> stage, state_diff |-> <<>>,
     signatures_verified |-> sigs, nonces_read |-> reads, validated |-> <<>>]

\* The same, for a return after the call of validate_constraints.
RejectedAfterValidation(stage, sigs, reads, pre_states, post_states) ==
    [Rejected(stage, sigs, reads) EXCEPT
        !.validated = <<Len(pre_states), Len(post_states)>>]

Min(a, b) == IF a < b THEN a ELSE b

\* if current_nonce != *nonce { return Err(()) }
nonce_accepts_later(current_nonce, nonce) == current_nonce <= nonce

nonce_accepts_earlier(current_nonce, nonce) == nonce <= current_nonce

nonce_matches(current_nonce, nonce) == current_nonce = nonce

\* The loop over witness_set.signatures_and_public_keys.zip(message.nonces),
\* from pair i on.
RECURSIVE check_signers(_, _, _, _)
check_signers(state, tx, i, authorized_addresses) ==
    IF i > Min(Len(tx.witness_set), Len(tx.message.nonces))
    THEN [ok |-> TRUE, stage |-> "ok", authorized_addresses |-> authorized_addresses,
          signatures_verified |-> i - 1, nonces_read |-> i - 1]
    ELSE LET entry == tx.witness_set[i]
             address == from_public_key(entry.public_key)
         IN  IF ~is_valid_for(entry.signature, tx.message, entry.public_key)
             THEN [ok |-> FALSE, stage |-> "signature",
                   authorized_addresses |-> authorized_addresses,
                   signatures_verified |-> i, nonces_read |-> i - 1]
             ELSE IF ~nonce_matches(get_account_by_address(state, address).nonce,
                                    tx.message.nonces[i])
             THEN [ok |-> FALSE, stage |-> "nonce",
                   authorized_addresses |-> authorized_addresses,
                   signatures_verified |-> i, nonces_read |-> i]
             ELSE check_signers(state, tx, i + 1, authorized_addresses \cup {address})

\* The two checks made before the loop: "ok", or the check that failed.
check_structure(message, witness_set) ==
    IF Cardinality(Range(message.addresses)) # Len(message.addresses)
    THEN "addresses"
    ELSE IF Len(message.nonces) # Len(witness_set)
    THEN "lengths"
    ELSE "ok"

\* Build pre_states for execution
pre_states_authorizing_all(state, message, authorized_addresses) ==
    [i \in DOMAIN message.addresses |->
        [account |-> get_account_by_address(state, message.addresses[i]),
         is_authorized |-> authorized_addresses # {}]]

build_pre_states(state, message, authorized_addresses) ==
    [i \in DOMAIN message.addresses |->
        [account |-> get_account_by_address(state, message.addresses[i]),
         is_authorized |-> message.addresses[i] \in authorized_addresses]]

\* message.addresses.iter().cloned().zip(post_states.into_iter()).collect()
collect_state_diff_reversed(addresses, post_states) ==
    [a \in {addresses[i] : i \in 1..Min(Len(addresses), Len(post_states))} |->
        post_states[CHOOSE i \in 1..Min(Len(addresses), Len(post_states)) :
                        addresses[Len(post_states) + 1 - i] = a]]

collect_state_diff(addresses, post_states) ==
    [a \in {addresses[i] : i \in 1..Min(Len(addresses), Len(post_states))} |->
        post_states[CHOOSE i \in 1..Min(Len(addresses), Len(post_states)) :
                        /\ addresses[i] = a
                        /\ \A j \in (i + 1)..Min(Len(addresses), Len(post_states)) :
                                addresses[j] # a]]

\* From the program_id check to the end, given what the loop found.
execute_any_program(state, message, auth) ==
    LET pre_states == build_pre_states(state, message, auth.authorized_addresses)
        executed == execute_public(pre_states, message.instruction_data)
    IN
    IF ~executed.ok
    THEN Rejected("execution", auth.signatures_verified, auth.nonces_read)
    ELSE IF ~validate_constraints(pre_states, executed.post_states, message.program_id)
    THEN RejectedAfterValidation("constraints", auth.signatures_verified,
                                 auth.nonces_read, pre_states, executed.post_states)
    ELSE IF Len(executed.post_states) # Len(message.addresses)
    THEN RejectedAfterValidation("post_states", auth.signatures_verified,
                                 auth.nonces_read, pre_states, executed.post_states)
    ELSE [ok |-> TRUE, stage |-> "ok",
          state_diff |-> collect_state_diff(message.addresses, executed.post_states),
          signatures_verified |-> auth.signatures_verified,
          nonces_read |-> auth.nonces_read,
          validated |-> <<Len(pre_states), Len(executed.post_states)>>]

execute_and_collect(state, message, auth) ==
    LET pre_states == build_pre_states(state, message, auth.authorized_addresses)
    IN
    IF message.program_id # AUTHENTICATED_TRANSFER_PROGRAM_ID
    THEN Rejected("program", auth.signatures_verified, auth.nonces_read)
    ELSE
    LET executed == execute_public(pre_states, message.instruction_data)
    IN
    IF ~executed.ok
    THEN Rejected("execution", auth.signatures_verified, auth.nonces_read)
    ELSE IF ~validate_constraints(pre_states, executed.post_states, message.program_id)
    THEN RejectedAfterValidation("constraints", auth.signatures_verified,
                                 auth.nonces_read, pre_states, executed.post_states)
    ELSE IF Len(executed.post_states) # Len(message.addresses)
    THEN RejectedAfterValidation("post_states", auth.signatures_verified,
                                 auth.nonces_read, pre_states, executed.post_states)
    ELSE [ok |-> TRUE, stage |-> "ok",
          state_diff |-> collect_state_diff(message.addresses, executed.post_states),
          signatures_verified |-> auth.signatures_verified,
          nonces_read |-> auth.nonces_read,
          validated |-> <<Len(pre_states), Len(executed.post_states)>>]

verify_signers_before_structure(state, tx) ==
    LET auth == check_signers(state, tx, 1, {})
        structure == check_structure(tx.message, tx.witness_set)
    IN  IF ~auth.ok
        THEN Rejected(auth.stage, auth.signatures_verified, auth.nonces_read)
        ELSE IF structure # "ok"
        THEN Rejected(structure, auth.signatures_verified, auth.nonces_read)
        ELSE execute_and_collect(state, tx.message, auth)

execute_and_verify_public_transaction(state, tx) ==
    LET structure == check_structure(tx.message, tx.witness_set)
    IN  IF structure # "ok"
        THEN Rejected(structure, 0, 0)
        ELSE LET auth == check_signers(state, tx, 1, {})
             IN  IF ~auth.ok
                 THEN Rejected(auth.stage, auth.signatures_verified, auth.nonces_read)
                 ELSE execute_and_collect(state, tx.message, auth)

(***************************************************************************)
(* transition_from_public_transaction.                                     *)
(***************************************************************************)
\* for (address, post) in state_diff { *get_account_by_address_mut(address) = post }
apply_state_diff_to_known_accounts(state, state_diff) ==
    [a \in DOMAIN state |->
        IF a \in DOMAIN state_diff THEN state_diff[a] ELSE state[a]]

apply_state_diff(state, state_diff) ==
    [a \in (DOMAIN state) \cup (DOMAIN state_diff) |->
        IF a \in DOMAIN state_diff THEN state_diff[a] ELSE state[a]]

\* current_account.nonce += 1
increment_nonce_twice(account) ==
    [account EXCEPT !.nonce = @ + 2]

increment_nonce(account) ==
    [account EXCEPT !.nonce = @ + 1]

\* for address in tx.signer_addresses() { get_account_by_address_mut(address).nonce += 1 }
increment_nonces_of_all(state, signers) ==
    [a \in (DOMAIN state) \cup signers |->
        IF signers # {}
        THEN increment_nonce(get_account_by_address(state, a))
        ELSE state[a]]

increment_nonces(state, signers) ==
    [a \in (DOMAIN state) \cup signers |->
        IF a \in signers
        THEN increment_nonce(get_account_by_address(state, a))
        ELSE state[a]]

\* The handler with get_account_by_address_mut used for the reads of the
\* validation too: every address it looks at gets a store entry.
transition_inserting_read_accounts(state, tx) ==
    LET verified == execute_and_verify_public_transaction(state, tx)
        read == Range(tx.message.addresses) \cup signer_addresses(tx)
    IN  IF ~verified.ok
        THEN [result |-> "Err",
              state |-> [a \in (DOMAIN state) \cup read |->
                            get_account_by_address(state, a)],
              verified |-> verified]
        ELSE [result |-> "Ok",
              state |-> increment_nonces(apply_state_diff(state, verified.state_diff),
                                         signer_addresses(tx)),
              verified |-> verified]

\* The handler advancing the signers' nonces whatever the verdict.
transition_advancing_nonces_on_error(state, tx) ==
    LET verified == execute_and_verify_public_transaction(state, tx)
    IN  IF ~verified.ok
        THEN [result |-> "Err",
              state |-> increment_nonces(state, signer_addresses(tx)),
              verified |-> verified]
        ELSE [result |-> "Ok",
              state |-> increment_nonces(apply_state_diff(state, verified.state_diff),
                                         signer_addresses(tx)),
              verified |-> verified]

transition_from_public_transaction(state, tx) ==
    LET verified == execute_and_verify_public_transaction(state, tx)
    IN  IF ~verified.ok
        THEN [result |-> "Err", state |-> state, verified |-> verified]
        ELSE [result |-> "Ok",
              state |-> increment_nonces(apply_state_diff(state, verified.state_diff),
                                         signer_addresses(tx)),
              verified |-> verified]

(***************************************************************************)
(* The two loops of transition_from_public_transaction, entry by entry.    *)
(* state_diff is a HashMap, whose iteration order is not fixed, and the    *)
(* signer addresses come in the order of the witness set: an order is a    *)
(* sequence that visits every element once.                                *)
(***************************************************************************)
Orders(S) ==
    {order \in [1..Cardinality(S) -> S] : Range(order) = S}

\* get_account_by_address_mut(address), then the write through the reference
write_account(state, address, account) ==
    [a \in (DOMAIN state) \cup {address} |->
        IF a = address THEN account ELSE state[a]]

RECURSIVE apply_state_diff_in_order(_, _, _)
apply_state_diff_in_order(state, state_diff, order) ==
    IF order = <<>> THEN state
    ELSE apply_state_diff_in_order(
            write_account(state, Head(order), state_diff[Head(order)]),
            state_diff, Tail(order))

RECURSIVE increment_nonces_in_order(_, _)
increment_nonces_in_order(state, order) ==
    IF order = <<>> THEN state
    ELSE increment_nonces_in_order(
            write_account(state, Head(order),
                          increment_nonce(get_account_by_address(state, Head(order)))),
            Tail(order))

\* The two loops with the nonce loop placed before the state_diff loop.
write_in_order_nonces_first(state, state_diff, diff_order, signer_order) ==
    apply_state_diff_in_order(increment_nonces_in_order(state, signer_order),
                              state_diff, diff_order)

\* The two loops that follow an Ok(state_diff).
write_in_order(state, state_diff, diff_order, signer_order) ==
    increment_nonces_in_order(
        apply_state_diff_in_order(state, state_diff, diff_order), signer_order)

\* The error value the caller receives: .map_err(|_| ())
map_err(verified) == "()"

(***************************************************************************)
(* State.                                                                  *)
(***************************************************************************)
VARIABLES
    public_state,   \* V01State.public_state
    pc,             \* "idle", or "returned" while the caller holds a call's result
    call_tx,        \* the transaction of the call that returned
    call_result,    \* "Ok" or "Err" of that call
    call_trace,     \* what execute_and_verify_public_transaction did in that call
    pre_state,      \* public_state when that call began
    genesis_total,  \* the sum of all balances at genesis
    replay,         \* an applied transaction kept for resubmission
    resubmitted,    \* whether the call that returned was a resubmission of it
    codec_input,    \* a deployment message or a byte string given to the codec
    codec_encoded,  \* the last result of to_bytes
    codec_decoded,  \* the last result of from_bytes
    overflow_checks,\* whether the build panics on integer overflow or wraps
    gas_calculator, \* a GasCalculator
    gas_call,       \* the last call made on it, with its result
    key_map,        \* KeyTreePublic.key_map
    addr_map,       \* KeyTreePublic.addr_map
    tree_call,      \* the last call made on the key tree, with its result
    chain_call,     \* the last call made on a ChainIndex, with its result
    accounts,       \* NSSAUserData.accounts
    user_call,      \* the last call made on the NSSAUserData
    seq_lock,       \* the task that holds the sequencer core's mutex, if any
    seq_pc,         \* where each task stands
    mempool,        \* the transactions the sequencer core holds
    block_id        \* the id of the last block it produced

engine_vars == <<public_state, pc, call_tx, call_result, call_trace, pre_state,
                 genesis_total, replay, resubmitted>>

codec_vars == <<codec_input, codec_encoded, codec_decoded>>

gas_vars == <<gas_calculator, gas_call>>

tree_vars == <<key_map, addr_map, tree_call>>

chain_vars == <<chain_call>>

user_vars == <<accounts, user_call>>

seq_vars == <<seq_lock, seq_pc, mempool, block_id>>

rest_vars == <<faulty_program, chain_vars, user_vars, seq_vars>>

other_vars == <<codec_vars, overflow_checks, gas_vars, tree_vars, rest_vars>>

vars == <<engine_vars, other_vars>>

\* What is kept of a call's verification: where it ended and what it had done.
Trace(verified) ==
    [stage |-> verified.stage,
     signatures_verified |-> verified.signatures_verified,
     nonces_read |-> verified.nonces_read,
     validated |-> verified.validated]

NoCall == Trace(Rejected("none", 0, 0))

RECURSIVE TotalBalance(_, _)
TotalBalance(state, addresses) ==
    IF addresses = {} THEN 0
    ELSE LET a == CHOOSE x \in addresses : TRUE
         IN  state[a].balance + TotalBalance(state, addresses \ {a})

\* genesis_state_for_tests: one account per genesis address
GenesisAccount(balance) ==
    [AccountDefault EXCEPT !.balance = balance,
                           !.program_owner = AUTHENTICATED_TRANSFER_PROGRAM_ID]

\* The genesis account holds more than one transfer can move.
GenesisStates ==
    {[a \in {"a1"} |-> GenesisAccount(MaxAmount + 1)]}

EngineInit ==
    /\ public_state \in GenesisStates
    /\ pc = "idle"
    /\ call_tx = NoTx
    /\ call_result = "none"
    /\ call_trace = NoCall
    /\ pre_state = public_state
    /\ genesis_total = TotalBalance(public_state, DOMAIN public_state)
    /\ replay = NoTx
    /\ resubmitted = FALSE

\* The codec, the gas calculator and the key tree before any use.
CodecIdle ==
    /\ codec_input = "none"
    /\ codec_encoded = "none"
    /\ codec_decoded = "none"

GasIdle ==
    /\ gas_calculator = "none"
    /\ gas_call = "none"

TreeIdle ==
    /\ key_map = "none"
    /\ addr_map = "none"
    /\ tree_call = "none"

ChainIdle == chain_call = "none"

UserIdle ==
    /\ accounts = "none"
    /\ user_call = "none"

SequencerIdle ==
    /\ seq_lock = "none"
    /\ seq_pc = "none"
    /\ mempool = "none"
    /\ block_id = "none"

\* The program of the build returns one post-state per pre-state.
ProgramSound == faulty_program = FALSE

RestIdle ==
    /\ ProgramSound
    /\ ChainIdle
    /\ UserIdle
    /\ SequencerIdle

Init ==
    /\ EngineInit
    /\ CodecIdle
    /\ overflow_checks = TRUE
    /\ GasIdle
    /\ TreeIdle
    /\ RestIdle

\* One call of transition_from_public_transaction.
Call(t) ==
    /\ pc = "idle"
    /\ LET r == transition_from_public_transaction(public_state, t)
       IN  /\ public_state' = r.state
           /\ call_result' = r.result
           /\ call_trace' = Trace(r.verified)
    /\ call_tx' = t
    /\ pre_state' = public_state
    /\ pc' = "returned"
    /\ UNCHANGED <<genesis_total, other_vars>>

Transition(t) ==
    /\ Call(t)
    /\ UNCHANGED <<replay, resubmitted>>

\* The caller drops the result (let _ = ...).
Return ==
    /\ pc = "returned"
    /\ pc' = "idle"
    /\ call_tx' = NoTx
    /\ call_result' = "none"
    /\ call_trace' = NoCall
    /\ pre_state' = public_state
    /\ resubmitted' = FALSE
    /\ UNCHANGED <<public_state, genesis_total, replay, other_vars>>

Next ==
    \/ /\ pc = "idle"
       /\ \E t \in PublicTransactions : Transition(t)
    \/ Return

Spec == Init /\ [][Next]_vars

(***************************************************************************)
(* Resubmission: one applied transaction is kept and submitted again,      *)
(* between any other calls.                                                *)
(***************************************************************************)
\* The transactions transfer_transaction_for_tests builds, for any number of
\* keys: a transfer between two addresses, one nonce per key, and the witness
\* set WitnessSet::for_message makes for the message with those keys.
TransferTransactions ==
    {t \in PublicTransactions :
        /\ t.message.program_id = AUTHENTICATED_TRANSFER_PROGRAM_ID
        /\ Len(t.message.addresses) = 2
        /\ t.message.addresses[1] # t.message.addresses[2]
        /\ Len(t.message.nonces) = Len(t.witness_set)
        /\ \A i \in DOMAIN t.witness_set :
            is_valid_for(t.witness_set[i].signature, t.message,
                         t.witness_set[i].public_key)}

\* A call whose result the caller drops at once.
DroppedCall(t) ==
    /\ pc = "idle"
    /\ public_state' = transition_from_public_transaction(public_state, t).state
    /\ pre_state' = public_state'
    /\ UNCHANGED <<pc, call_tx, call_result, call_trace, genesis_total,
                   replay, resubmitted, other_vars>>

\* A call that applies t, after which t is the transaction kept.
ApplyAndKeep(t) ==
    /\ replay = NoTx
    /\ Call(t)
    /\ call_result' = "Ok"
    /\ replay' = t
    /\ UNCHANGED resubmitted

\* The kept transaction is submitted again.
Resubmit ==
    /\ replay # NoTx
    /\ Call(replay)
    /\ resubmitted' = TRUE
    /\ UNCHANGED replay

NextReplay ==
    \/ \E t \in TransferTransactions : DroppedCall(t)
    \/ /\ pc = "idle"
       /\ replay = NoTx
       /\ \E t \in TransferTransactions : ApplyAndKeep(t)
    \/ Resubmit
    \/ Return

SpecReplay == Init /\ [][NextReplay]_vars

(***************************************************************************)
(* What a returned call looked like.                                       *)
(***************************************************************************)
Returned == pc = "returned"

Applied == Returned /\ call_result = "Ok"

Refused == Returned /\ call_result = "Err"

CallSigners == signer_addresses(call_tx)

CallAddresses == Range(call_tx.message.addresses)

NonceBefore(a) == get_account_by_address(pre_state, a).nonce

BalanceBefore(a) == get_account_by_address(pre_state, a).balance

\* The pairs the loop walks: witness-set entries zipped with message.nonces.
CallPairs ==
    1..Min(Len(call_tx.witness_set), Len(call_tx.message.nonces))

(***************************************************************************)
(* C1: a rejected transition leaves the store exactly as it was: the same  *)
(* addresses are present with the same accounts, and no default account is *)
(* inserted for an address that validation only read.                      *)
(***************************************************************************)
C1_RejectionLeavesStore ==
    Refused => public_state = pre_state

\* A call rejected after it read the nonce of a signer and the accounts of
\* addresses that have no store entry.
C1_Witness ==
    /\ Refused
    /\ call_trace.stage = "execution"
    /\ call_trace.nonces_read > 0
    /\ \E a \in CallAddresses \cup CallSigners : a \notin DOMAIN pre_state
    /\ public_state = pre_state

(***************************************************************************)
(* C2: an applied transition advances the stored nonce of every address    *)
(* derived from a witness-set key by exactly 1, whether or not the address *)
(* is in message.addresses and however many entries carry the key.         *)
(***************************************************************************)
C2_SignerNonceAdvancesByOne ==
    Applied =>
        \A a \in CallSigners :
            /\ a \in DOMAIN public_state
            /\ public_state[a].nonce = NonceBefore(a) + 1

\* An applied call whose witness set holds two entries of one key.
C2_Witness ==
    /\ Applied
    /\ Len(call_tx.witness_set) = 2
    /\ call_tx.witness_set[1].public_key = call_tx.witness_set[2].public_key
    /\ \A a \in CallSigners : public_state[a].nonce = NonceBefore(a) + 1

\* An applied call with a signer that is not among the message's addresses.
SignerOutsideMessageApplied ==
    /\ Applied
    /\ \E a \in CallSigners : a \notin CallAddresses /\ a \notin DOMAIN pre_state

(***************************************************************************)
(* C3: once a transaction has been applied, every later submission of the  *)
(* same transaction, at once or after any other applied or rejected calls, *)
(* is rejected and changes nothing.                                        *)
(***************************************************************************)
C3_AppliedAtMostOnce ==
    (Returned /\ resubmitted) =>
        (call_result = "Err" /\ public_state = pre_state)

\* The kept transaction resubmitted after another transaction of its signer
\* was applied: its nonce lies two behind the stored one.
C3_Witness ==
    /\ Refused
    /\ resubmitted
    /\ call_tx = replay
    /\ \E i \in CallPairs :
        NonceBefore(from_public_key(call_tx.witness_set[i].public_key))
            = call_tx.message.nonces[i] + 2

\* The kept transaction resubmitted right after it was applied.
ResubmittedAtOnce ==
    /\ Refused
    /\ resubmitted
    /\ \A i \in CallPairs :
        NonceBefore(from_public_key(call_tx.witness_set[i].public_key))
            = call_tx.message.nonces[i] + 1

(***************************************************************************)
(* C4: whatever calls were made, applied or rejected, the balances of all  *)
(* accounts in the store add up to what they added up to at genesis.       *)
(***************************************************************************)
C4_TotalBalanceConserved ==
    TotalBalance(public_state, DOMAIN public_state) = genesis_total

\* An applied transfer of a positive amount to an address that had no entry.
C4_Witness ==
    /\ Applied
    /\ call_tx.message.instruction_data > 0
    /\ \E a \in CallAddresses : a \notin DOMAIN pre_state
    /\ TotalBalance(public_state, DOMAIN public_state) = genesis_total

(***************************************************************************)
(* C5: a transfer [A, B] with A # B, signed by A's key alone at A's stored *)
(* nonce, of an amount A can pay, is applied: A pays the amount, B gets    *)
(* it, A's nonce advances by 1, B's nonce and the program_owner and data   *)
(* of both stay; a B without store entry starts from the default account.  *)
(***************************************************************************)
CallSender == call_tx.message.addresses[1]

CallRecipient == call_tx.message.addresses[2]

CallAmount == call_tx.message.instruction_data

\* The call that returned was given the transfer of C5.
IsSignedTransfer ==
    /\ Returned
    /\ call_tx.message.program_id = AUTHENTICATED_TRANSFER_PROGRAM_ID
    /\ Len(call_tx.message.addresses) = 2
    /\ CallSender # CallRecipient
    /\ Len(call_tx.witness_set) = 1
    /\ from_public_key(call_tx.witness_set[1].public_key) = CallSender
    /\ is_valid_for(call_tx.witness_set[1].signature, call_tx.message,
                    call_tx.witness_set[1].public_key)
    /\ call_tx.message.nonces = <<NonceBefore(CallSender)>>
    /\ CallAmount <= BalanceBefore(CallSender)

C5_SignedTransferApplied ==
    IsSignedTransfer =>
        /\ call_result = "Ok"
        /\ {CallSender, CallRecipient} \subseteq DOMAIN public_state
        /\ public_state[CallSender] =
              [get_account_by_address(pre_state, CallSender)
                    EXCEPT !.balance = @ - CallAmount, !.nonce = @ + 1]
        /\ public_state[CallRecipient] =
              [get_account_by_address(pre_state, CallRecipient)
                    EXCEPT !.balance = @ + CallAmount]

\* Such a transfer of a positive amount to an address without store entry.
C5_Witness ==
    /\ IsSignedTransfer
    /\ CallAmount > 0
    /\ CallRecipient \notin DOMAIN pre_state
    /\ public_state[CallRecipient] = [AccountDefault EXCEPT !.balance = CallAmount]

(***************************************************************************)
(* C6: a call is rejected whenever some signer's supplied nonce differs    *)
(* from the nonce stored for the signer's address, lower or higher, an     *)
(* address without entry counting as nonce 0; and the nonce check rejects  *)
(* no call whose supplied nonces all equal the stored ones.                *)
(***************************************************************************)
SuppliedNonceDiffers(i) ==
    call_tx.message.nonces[i]
        # NonceBefore(from_public_key(call_tx.witness_set[i].public_key))

C6_NonceMismatchRejected ==
    Returned =>
        /\ (\E i \in CallPairs : SuppliedNonceDiffers(i)) => call_result = "Err"
        /\ call_trace.stage = "nonce" => \E i \in CallPairs : SuppliedNonceDiffers(i)

\* A call the nonce check rejected for a skip-ahead nonce of an address that
\* has no store entry.
C6_Witness ==
    /\ Refused
    /\ call_trace.stage = "nonce"
    /\ \E i \in CallPairs :
        LET a == from_public_key(call_tx.witness_set[i].public_key)
        IN  /\ a \notin DOMAIN pre_state
            /\ call_tx.message.nonces[i] > 0

\* A call the nonce check rejected for a stale nonce.
StaleNonceRejected ==
    /\ Refused
    /\ call_trace.stage = "nonce"
    /\ \E i \in CallPairs :
        call_tx.message.nonces[i]
            < NonceBefore(from_public_key(call_tx.witness_set[i].public_key))

(***************************************************************************)
(* C7: no balance goes down in a call unless the witness set holds a valid *)
(* signature by the key of that account's address, supplied at the         *)
(* account's stored nonce; a transfer whose sender is not derived from a   *)
(* witness-set key is rejected and changes nothing, whoever else signed.   *)
(***************************************************************************)
SignedAtStoredNonce(a) ==
    \E i \in CallPairs :
        /\ from_public_key(call_tx.witness_set[i].public_key) = a
        /\ is_valid_for(call_tx.witness_set[i].signature, call_tx.message,
                        call_tx.witness_set[i].public_key)
        /\ call_tx.message.nonces[i] = NonceBefore(a)

C7_NoDebitWithoutSignature ==
    Returned =>
        /\ \A a \in Addresses :
            get_account_by_address(public_state, a).balance < BalanceBefore(a)
                => SignedAtStoredNonce(a)
        /\ (/\ Len(call_tx.message.addresses) = 2
            /\ call_tx.message.addresses[1] \notin CallSigners)
                => (call_result = "Err" /\ public_state = pre_state)

\* A transfer of a positive amount the sender could pay, signed validly at the
\* right nonce by the recipient only, and rejected by the program.
C7_Witness ==
    /\ Refused
    /\ call_trace.stage = "execution"
    /\ Len(call_tx.message.addresses) = 2
    /\ call_tx.message.addresses[1] \notin CallSigners
    /\ SignedAtStoredNonce(call_tx.message.addresses[2])
    /\ call_tx.message.instruction_data > 0
    /\ call_tx.message.instruction_data <= BalanceBefore(call_tx.message.addresses[1])

(***************************************************************************)
(* C8: an applied call leaves every account that is neither in             *)
(* message.addresses nor derived from a witness-set key as it was, and the *)
(* nonce of every address of the message that did not sign as it was.      *)
(***************************************************************************)
C8_OthersUntouched ==
    Applied =>
        /\ \A a \in Addresses \ (CallAddresses \cup CallSigners) :
            /\ a \in DOMAIN public_state <=> a \in DOMAIN pre_state
            /\ a \in DOMAIN pre_state => public_state[a] = pre_state[a]
        /\ \A a \in CallAddresses \ CallSigners :
            public_state[a].nonce = NonceBefore(a)

\* An applied transfer with a third account in the store and a recipient that
\* did not sign and holds a nonce above 0.
C8_Witness ==
    /\ Applied
    /\ \E a \in DOMAIN pre_state : a \notin CallAddresses \cup CallSigners
    /\ \E a \in CallAddresses \ CallSigners :
        NonceBefore(a) > 0 /\ public_state[a].nonce = NonceBefore(a)

(***************************************************************************)
(* C9: a call whose message.addresses repeats an address, or whose number  *)
(* of nonces differs from the number of witness-set entries, is rejected   *)
(* before any signature is verified or any stored nonce read, and leaves   *)
(* the store as it was.                                                    *)
(***************************************************************************)
Malformed(t) ==
    \/ \E i, j \in DOMAIN t.message.addresses :
        i # j /\ t.message.addresses[i] = t.message.addresses[j]
    \/ Len(t.message.nonces) # Len(t.witness_set)

C9_MalformedRejectedFirst ==
    (Returned /\ Malformed(call_tx)) =>
        /\ call_result = "Err"
        /\ call_trace.signatures_verified = 0
        /\ call_trace.nonces_read = 0
        /\ public_state = pre_state

\* A rejected call whose addresses repeat and whose first witness-set entry
\* holds an invalid signature and a nonce that is not the stored one.
C9_Witness ==
    /\ Refused
    /\ call_trace.stage = "addresses"
    /\ call_trace.signatures_verified = 0
    /\ CallPairs # {}
    /\ ~is_valid_for(call_tx.witness_set[1].signature, call_tx.message,
                     call_tx.witness_set[1].public_key)
    /\ SuppliedNonceDiffers(1)

\* A call rejected because it has more nonces than witness-set entries.
LengthMismatchRejected ==
    /\ Refused
    /\ call_trace.stage = "lengths"
    /\ Len(call_tx.witness_set) > 0
    /\ call_trace.signatures_verified = 0

(***************************************************************************)
(* C10: a transfer of more than the sender's balance is rejected and       *)
(* changes nothing: no nonce advances and no recipient account is created; *)
(* a transfer of exactly the sender's whole balance is applied.            *)
(***************************************************************************)
C10_OverdraftRejected ==
    /\ (/\ Returned
        /\ call_tx.message.program_id = AUTHENTICATED_TRANSFER_PROGRAM_ID
        /\ Len(call_tx.message.addresses) = 2
        /\ CallAmount > BalanceBefore(CallSender))
            => (call_result = "Err" /\ public_state = pre_state)
    /\ (IsSignedTransfer /\ CallAmount = BalanceBefore(CallSender))
            => (call_result = "Ok" /\ public_state[CallSender].balance = 0)

\* A transfer of more than the sender's balance, signed by the sender at the
\* stored nonce, to an address without store entry: rejected by the program.
C10_Witness ==
    /\ Refused
    /\ call_trace.stage = "execution"
    /\ Len(call_tx.message.addresses) = 2
    /\ SignedAtStoredNonce(CallSender)
    /\ CallAmount > BalanceBefore(CallSender)
    /\ CallRecipient \notin DOMAIN public_state
    /\ get_account_by_address(public_state, CallSender).nonce = NonceBefore(CallSender)

\* A transfer of the sender's whole, positive balance, applied.
WholeBalanceTransferred ==
    /\ IsSignedTransfer
    /\ CallAmount = BalanceBefore(CallSender)
    /\ BalanceBefore(CallSender) > 0
    /\ call_result = "Ok"

(***************************************************************************)
(* C11: every rejected transition reports which kind of failure occurred,  *)
(* so that rejections for different reasons return different results.      *)
(***************************************************************************)
FailureKind(stage) ==
    CASE stage \in {"addresses", "lengths"} -> "StructuralError"
      [] stage = "signature" -> "AuthError"
      [] stage = "nonce" -> "NonceMismatch"
      [] stage = "program" -> "UnknownProgram"
      [] stage = "execution" -> "ExecutionError"
      [] stage \in {"constraints", "post_states"} -> "ConstraintViolation"
      [] OTHER -> "none"

\* What the caller of a rejected call holds.
CallError ==
    IF call_result = "Err" THEN map_err(call_trace) ELSE "none"

C11_RejectionReportsKind ==
    Refused => CallError = FailureKind(call_trace.stage)

(***************************************************************************)
(* C12: a call whose program_id is not the authenticated-transfer id is    *)
(* rejected and leaves the store as it was, no nonce advanced, also when   *)
(* every signature is valid and every nonce is the stored one.             *)
(***************************************************************************)
C12_UnknownProgramRejected ==
    (Returned /\ call_tx.message.program_id # AUTHENTICATED_TRANSFER_PROGRAM_ID)
        => (call_result = "Err" /\ public_state = pre_state)

\* A transfer the sender signed at the stored nonce and could afford, naming
\* another program: rejected at the program_id check.
C12_Witness ==
    /\ Refused
    /\ call_trace.stage = "program"
    /\ call_tx.message.program_id = OTHER_PROGRAM_ID
    /\ Len(call_tx.message.addresses) = 2
    /\ SignedAtStoredNonce(CallSender)
    /\ call_trace.nonces_read = Len(call_tx.witness_set)
    /\ CallAmount > 0
    /\ CallAmount <= BalanceBefore(CallSender)

(***************************************************************************)
(* C13: the outcome and the resulting store of a call are the same in      *)
(* whatever order the state_diff entries and the signer addresses are      *)
(* visited: they depend on the store and the transaction alone.            *)
(***************************************************************************)
C13_OrderIndependent ==
    Returned =>
        LET verified == execute_and_verify_public_transaction(pre_state, call_tx)
        IN  IF ~verified.ok
            THEN call_result = "Err" /\ public_state = pre_state
            ELSE /\ call_result = "Ok"
                 /\ \A diff_order \in Orders(DOMAIN verified.state_diff) :
                        \A signer_order \in Orders(CallSigners) :
                            write_in_order(pre_state, verified.state_diff,
                                           diff_order, signer_order)
                                = public_state

\* An applied call with two state_diff entries and two signers, one of them
\* written by both loops.
C13_Witness ==
    /\ Applied
    /\ Cardinality(CallAddresses) = 2
    /\ Cardinality(CallSigners) = 2
    /\ CallSender \in CallSigners
    /\ CallAmount > 0

(***************************************************************************)
(* The deployment-message codec.                                           *)
(***************************************************************************)
\* Bytes take the values 0..MaxByte; a bytecode has at most MaxBytecode bytes.
MaxByte == 2

MaxBytecode == 2

Bytes == 0..MaxByte

MESSAGE_ENCODING_PREFIX_LEN == 22

\* b"\x02/NSSA/v0.1/TxMessage/"
MESSAGE_ENCODING_PREFIX ==
    <<2, 47, 78, 83, 83, 65, 47, 118, 48, 46, 49, 47,
      84, 120, 77, 101, 115, 115, 97, 103, 101, 47>>

\* The size of a u32 in bytes: [0u8; 4]
U32_LEN == 4

\* (n as u32).to_le_bytes(): the four low bytes of n, lowest first
u32_to_le_bytes(n) ==
    <<n % 256, (n \div 256) % 256, (n \div 65536) % 256, (n \div 16777216) % 256>>

u32_from_le_bytes(word_buf) ==
    word_buf[1] + 256 * word_buf[2] + 65536 * word_buf[3] + 16777216 * word_buf[4]

\* Message::to_bytes: PREFIX || bytecode_len (4 bytes LE) || bytecode
to_bytes(message) ==
    MESSAGE_ENCODING_PREFIX \o u32_to_le_bytes(Len(message.bytecode))
        \o message.bytecode

\* Cursor::new(bytes)
Cursor(bytes) == [bytes |-> bytes, position |-> 0]

remaining(cursor) == Len(cursor.bytes) - cursor.position

\* cursor.read(buf) for a buffer of buf_len bytes: fills as much of the
\* buffer as the input has left and reports how many bytes that was.
read(cursor, buf_len) ==
    LET num_bytes == Min(buf_len, remaining(cursor))
    IN  [ok |-> TRUE, num_bytes |-> num_bytes,
         buf |-> SubSeq(cursor.bytes, cursor.position + 1,
                        cursor.position + num_bytes),
         cursor |-> [cursor EXCEPT !.position = @ + num_bytes]]

\* cursor.read_exact(buf): fills the whole buffer or fails.
read_exact(cursor, buf_len) ==
    IF remaining(cursor) < buf_len
    THEN [ok |-> FALSE, num_bytes |-> 0, buf |-> <<>>, cursor |-> cursor]
    ELSE read(cursor, buf_len)

\* Vec::with_capacity(capacity): room for capacity bytes, and no element
Vec_with_capacity(capacity) == <<>>

u32_from_cursor(cursor) ==
    LET word_buf == read_exact(cursor, U32_LEN)
    IN  IF ~word_buf.ok
        THEN [ok |-> FALSE, value |-> 0, cursor |-> cursor]
        ELSE [ok |-> TRUE, value |-> u32_from_le_bytes(word_buf.buf),
              cursor |-> word_buf.cursor]

DecodeOk(message) == [ok |-> TRUE, error |-> "none", message |-> message]

\* error: "Io" for an io::Error passed on by ?, or
\* "TransactionDeserializationError"
DecodeErr(error) == [ok |-> FALSE, error |-> error, message |-> [bytecode |-> <<>>]]

\* Message::from_cursor without the comparison of num_bytes and bytecode_len.
from_cursor_any_num_bytes(cursor) ==
    LET prefix == read_exact(cursor, MESSAGE_ENCODING_PREFIX_LEN)
    IN  IF ~prefix.ok THEN DecodeErr("Io")
        ELSE IF prefix.buf # MESSAGE_ENCODING_PREFIX
        THEN DecodeErr("TransactionDeserializationError")
        ELSE LET bytecode_len == u32_from_cursor(prefix.cursor)
             IN  IF ~bytecode_len.ok THEN DecodeErr("Io")
                 ELSE LET bytecode == Vec_with_capacity(bytecode_len.value)
                          got == read(bytecode_len.cursor, Len(bytecode))
                      IN  DecodeOk([bytecode |-> got.buf])

\* Message::from_cursor
from_cursor(cursor) ==
    LET prefix == read_exact(cursor, MESSAGE_ENCODING_PREFIX_LEN)
    IN  IF ~prefix.ok THEN DecodeErr("Io")
        ELSE IF prefix.buf # MESSAGE_ENCODING_PREFIX
        THEN DecodeErr("TransactionDeserializationError")
        ELSE LET bytecode_len == u32_from_cursor(prefix.cursor)
             IN  IF ~bytecode_len.ok THEN DecodeErr("Io")
                 ELSE LET bytecode == Vec_with_capacity(bytecode_len.value)
                          got == read(bytecode_len.cursor, Len(bytecode))
                      IN  IF got.num_bytes # bytecode_len.value
                          THEN DecodeErr("TransactionDeserializationError")
                          ELSE DecodeOk([bytecode |-> got.buf])

\* ProgramDeploymentTransaction::from_bytes
from_bytes(bytes) == from_cursor(Cursor(bytes))

\* The messages and byte strings given to the codec.
DeploymentMessages == [bytecode : SeqsUpTo(Bytes, MaxBytecode)]

\* The prefix, whole, cut short, and with its first or last byte changed.
PrefixInputs ==
    {MESSAGE_ENCODING_PREFIX,
     SubSeq(MESSAGE_ENCODING_PREFIX, 1, MESSAGE_ENCODING_PREFIX_LEN - 1),
     <<>>,
     [MESSAGE_ENCODING_PREFIX EXCEPT ![1] = 1],
     [MESSAGE_ENCODING_PREFIX EXCEPT ![MESSAGE_ENCODING_PREFIX_LEN] = 46]}

\* A prefix input, then up to four bytes of length, then up to MaxBytecode
\* bytes.
ByteStrings ==
    {p \o l \o d : p \in PrefixInputs, l \in SeqsUpTo(Bytes, U32_LEN),
                   d \in SeqsUpTo(Bytes, MaxBytecode)}

NotEncoded == [done |-> FALSE, bytes |-> <<>>]

NotDecoded == [done |-> FALSE, result |-> DecodeErr("none")]

InitCodec ==
    /\ EngineInit
    /\ overflow_checks = TRUE
    /\ GasIdle
    /\ TreeIdle
    /\ RestIdle
    /\ \/ \E m \in DeploymentMessages :
            codec_input = [kind |-> "message", message |-> m, bytes |-> <<>>]
       \/ \E b \in ByteStrings :
            codec_input = [kind |-> "bytes", message |-> [bytecode |-> <<>>],
                           bytes |-> b]
    /\ codec_encoded = NotEncoded
    /\ codec_decoded = NotDecoded

\* to_bytes of the message given
ToBytes ==
    /\ codec_input.kind = "message"
    /\ ~codec_encoded.done
    /\ codec_encoded' = [done |-> TRUE, bytes |-> to_bytes(codec_input.message)]
    /\ UNCHANGED <<codec_input, codec_decoded>>

\* from_bytes of what to_bytes returned
DecodeEncoded ==
    /\ codec_input.kind = "message"
    /\ codec_encoded.done
    /\ ~codec_decoded.done
    /\ codec_decoded' = [done |-> TRUE, result |-> from_bytes(codec_encoded.bytes)]
    /\ UNCHANGED <<codec_input, codec_encoded>>

\* from_bytes of the byte string given
FromBytes ==
    /\ codec_input.kind = "bytes"
    /\ ~codec_decoded.done
    /\ codec_decoded' = [done |-> TRUE, result |-> from_bytes(codec_input.bytes)]
    /\ UNCHANGED <<codec_input, codec_encoded>>

\* to_bytes of the message from_bytes returned
EncodeDecoded ==
    /\ codec_input.kind = "bytes"
    /\ codec_decoded.done
    /\ codec_decoded.result.ok
    /\ ~codec_encoded.done
    /\ codec_encoded' =
            [done |-> TRUE, bytes |-> to_bytes(codec_decoded.result.message)]
    /\ UNCHANGED <<codec_input, codec_decoded>>

NextCodec ==
    /\ \/ ToBytes
       \/ DecodeEncoded
       \/ FromBytes
       \/ EncodeDecoded
    /\ UNCHANGED <<engine_vars, overflow_checks, gas_vars, tree_vars, rest_vars>>

SpecCodec == InitCodec /\ [][NextCodec]_vars

(***************************************************************************)
(* C14: for every deployment message m, whatever its bytecode,             *)
(* from_bytes(to_bytes(m)) succeeds and returns m; and for every byte      *)
(* string b that from_bytes accepts, to_bytes(from_bytes(b)) is b.         *)
(***************************************************************************)
C14_RoundTrip ==
    /\ (codec_input.kind = "message" /\ codec_decoded.done) =>
            /\ codec_decoded.result.ok
            /\ codec_decoded.result.message = codec_input.message
    /\ (codec_input.kind = "bytes" /\ codec_encoded.done) =>
            codec_encoded.bytes = codec_input.bytes

(***************************************************************************)
(* C15: from_bytes returns an error, never Ok, when the first 22 bytes of  *)
(* the input are not the prefix, when the input ends before the 4-byte     *)
(* length is complete, and when fewer bytes follow the length than it      *)
(* declares; a wrong prefix and a short bytecode are reported as           *)
(* TransactionDeserializationError.                                        *)
(***************************************************************************)
HeaderLen == MESSAGE_ENCODING_PREFIX_LEN + U32_LEN

HasPrefix(b) ==
    /\ Len(b) >= MESSAGE_ENCODING_PREFIX_LEN
    /\ SubSeq(b, 1, MESSAGE_ENCODING_PREFIX_LEN) = MESSAGE_ENCODING_PREFIX

DeclaredLen(b) ==
    u32_from_le_bytes(SubSeq(b, MESSAGE_ENCODING_PREFIX_LEN + 1, HeaderLen))

ShortLengthRefused ==
    /\ codec_input.kind = "bytes"
    /\ codec_decoded.done
    /\ HasPrefix(codec_input.bytes)
    /\ Len(codec_input.bytes) = HeaderLen - 1
    /\ ~codec_decoded.result.ok

\* A changed last prefix byte, a length of 0 and no bytecode: refused.
WrongPrefixRefused ==
    /\ codec_input.kind = "bytes"
    /\ codec_decoded.done
    /\ ~HasPrefix(codec_input.bytes)
    /\ Len(codec_input.bytes) = HeaderLen
    /\ DeclaredLen(codec_input.bytes) = 0
    /\ ~codec_decoded.result.ok

(***************************************************************************)
(* The gas calculator.  A u64 has U64_BITS bits here; on overflow, + and * *)
(* panic in a build with overflow checks and wrap around in one without.   *)
(***************************************************************************)
U64_BITS == 3

MaxElfLen == 3

MaxInputLength == 2

U64_MAX == 2 ^ U64_BITS - 1

Some(value) == [kind |-> "Some", value |-> value]

None == [kind |-> "None", value |-> 0]

\* A u64 returned
Value(value) == [kind |-> "value", value |-> value]

\* The call did not return: the thread panicked.
Panicked == [kind |-> "panic", value |-> 0]

\* a * b on u64
u64_mul(a, b) ==
    IF a * b <= U64_MAX THEN Value(a * b)
    ELSE IF overflow_checks THEN Panicked
    ELSE Value((a * b) % (U64_MAX + 1))

\* a + b on u64
u64_add(a, b) ==
    IF a + b <= U64_MAX THEN Value(a + b)
    ELSE IF overflow_checks THEN Panicked
    ELSE Value((a + b) % (U64_MAX + 1))

\* GasCalculator::new
new(gas_fee_per_byte_deploy, gas_fee_per_input_buffer_runtime, gas_fee_per_byte_runtime, gas_cost_runtime, gas_cost_deploy, gas_limit_deploy, gas_limit_runtime) ==
    [gas_fee_per_byte_deploy |-> gas_fee_per_byte_deploy,
     gas_fee_per_input_buffer_runtime |-> gas_fee_per_input_buffer_runtime,
     gas_fee_per_byte_runtime |-> gas_fee_per_byte_runtime,
     gas_cost_deploy |-> gas_cost_deploy,
     gas_cost_runtime |-> gas_cost_runtime,
     gas_limit_deploy |-> gas_limit_deploy,
     gas_limit_runtime |-> gas_limit_runtime]

\* if gas <= self.gas_limit_deploy() { Some(gas) } else { None }
gas_deploy_up_to_limit(self, elf) ==
    LET gas == u64_mul(self.gas_fee_per_byte_deploy, Len(elf))
    IN  IF gas.kind = "panic" THEN Panicked
        ELSE IF gas.value <= self.gas_limit_deploy THEN Some(gas.value)
        ELSE None

gas_deploy(self, elf) ==
    LET gas == u64_mul(self.gas_fee_per_byte_deploy, Len(elf))
    IN  IF gas.kind = "panic" THEN Panicked
        ELSE IF gas.value < self.gas_limit_deploy THEN Some(gas.value)
        ELSE None

gas_runtime(self, elf) ==
    u64_mul(self.gas_fee_per_byte_runtime, Len(elf))

gas_input_buffer(self, input_length) ==
    u64_mul(self.gas_fee_per_input_buffer_runtime, input_length)

gas_runtime_full(self, elf, input_length) ==
    LET runtime == gas_runtime(self, elf)
        input_buffer == gas_input_buffer(self, input_length)
    IN  IF runtime.kind = "panic" \/ input_buffer.kind = "panic" THEN Panicked
        ELSE LET gas == u64_add(runtime.value, input_buffer.value)
             IN  IF gas.kind = "panic" THEN Panicked
                 ELSE IF gas.value < self.gas_limit_runtime THEN Some(gas.value)
                 ELSE None

deploy_cost(self, deploy_gas) ==
    u64_mul(deploy_gas, self.gas_cost_deploy)

runtime_cost(self, runtime_gas) ==
    u64_mul(runtime_gas, self.gas_cost_runtime)

\* The rates, costs, limits and gas amounts given: small ones, and ones whose
\* products and sums pass U64_MAX.
GasRates == {1, 2, 2 ^ (U64_BITS - 1)}

GasLimits == {0, 2, 3, U64_MAX}

GasAmounts == {0, 1, 2, U64_MAX}

GasCalculators ==
    {new(fd, fi, fr, cr, cd, ld, lr) :
        fd \in GasRates, fi \in GasRates, fr \in GasRates,
        cr \in GasRates, cd \in GasRates, ld \in GasLimits, lr \in GasLimits}

\* elf: &[u8], of which the calculator uses the length
Elfs == {[i \in 1..n |-> 0] : n \in 0..MaxElfLen}

GasCall(op, elf, input_length, gas, result) ==
    [op |-> op, elf |-> elf, input_length |-> input_length, gas |-> gas,
     result |-> result]

InitGas ==
    /\ EngineInit
    /\ CodecIdle
    /\ TreeIdle
    /\ RestIdle
    /\ overflow_checks \in BOOLEAN
    /\ gas_calculator \in GasCalculators
    /\ gas_call = GasCall("none", <<>>, 0, 0, None)

GasDeploy(elf) ==
    gas_call' = GasCall("gas_deploy", elf, 0, 0, gas_deploy(gas_calculator, elf))

GasRuntimeFull(elf, input_length) ==
    gas_call' = GasCall("gas_runtime_full", elf, input_length, 0,
                        gas_runtime_full(gas_calculator, elf, input_length))

DeployCost(deploy_gas) ==
    gas_call' = GasCall("deploy_cost", <<>>, 0, deploy_gas,
                        deploy_cost(gas_calculator, deploy_gas))

RuntimeCost(runtime_gas) ==
    gas_call' = GasCall("runtime_cost", <<>>, 0, runtime_gas,
                        runtime_cost(gas_calculator, runtime_gas))

NextGas ==
    /\ \/ \E elf \in Elfs : GasDeploy(elf)
       \/ \E elf \in Elfs : \E input_length \in 0..MaxInputLength :
            GasRuntimeFull(elf, input_length)
       \/ \E deploy_gas \in GasAmounts : DeployCost(deploy_gas)
       \/ \E runtime_gas \in GasAmounts : RuntimeCost(runtime_gas)
    /\ UNCHANGED <<engine_vars, codec_vars, overflow_checks, gas_calculator,
                   tree_vars, rest_vars>>

SpecGas == InitGas /\ [][NextGas]_vars

\* The exact results, on unbounded integers.
ExactDeployGas ==
    Len(gas_call.elf) * gas_calculator.gas_fee_per_byte_deploy

ExactRuntimeGas ==
    Len(gas_call.elf) * gas_calculator.gas_fee_per_byte_runtime
        + gas_call.input_length * gas_calculator.gas_fee_per_input_buffer_runtime

(***************************************************************************)
(* C16: when len(elf) * gas_fee_per_byte_deploy fits a u64, gas_deploy     *)
(* returns Some(product) if the product is below gas_limit_deploy and None *)
(* otherwise: None when the product equals the limit, and None for every   *)
(* bytecode when the limit is 0.                                           *)
(***************************************************************************)
C16_DeployGasBelowLimit ==
    (gas_call.op = "gas_deploy" /\ ExactDeployGas <= U64_MAX) =>
        /\ gas_call.result =
                IF ExactDeployGas < gas_calculator.gas_limit_deploy
                THEN Some(ExactDeployGas) ELSE None
        /\ ExactDeployGas = gas_calculator.gas_limit_deploy =>
                gas_call.result = None
        /\ gas_calculator.gas_limit_deploy = 0 => gas_call.result = None

\* A bytecode whose gas is exactly the limit, which is not 0: None.
C16_Witness ==
    /\ gas_call.op = "gas_deploy"
    /\ Len(gas_call.elf) > 0
    /\ ExactDeployGas = gas_calculator.gas_limit_deploy
    /\ gas_call.result = None

\* A bytecode under the limit 0.
ZeroLimitRefuses ==
    /\ gas_call.op = "gas_deploy"
    /\ gas_calculator.gas_limit_deploy = 0
    /\ ExactDeployGas <= U64_MAX
    /\ gas_call.result = None

(***************************************************************************)
(* C17: gas_runtime_full returns Some(len(elf) * gas_fee_per_byte_runtime  *)
(* + input_length * gas_fee_per_input_buffer_runtime) exactly when that    *)
(* sum is below gas_limit_runtime and None otherwise, and the result is    *)
(* the same whatever the deploy rate and the deploy limit are.             *)
(***************************************************************************)
C17_RuntimeGasBelowLimit ==
    gas_call.op = "gas_runtime_full" =>
        /\ gas_call.result =
                IF ExactRuntimeGas < gas_calculator.gas_limit_runtime
                THEN Some(ExactRuntimeGas) ELSE None
        /\ \A fd \in GasRates, ld \in GasLimits :
                gas_call.result =
                    gas_runtime_full(
                        [gas_calculator EXCEPT !.gas_fee_per_byte_deploy = fd,
                                               !.gas_limit_deploy = ld],
                        gas_call.elf, gas_call.input_length)

(***************************************************************************)
(* C18: gas_deploy, gas_runtime_full, deploy_cost and runtime_cost never   *)
(* return a value other than the exact result on unbounded integers.       *)
(***************************************************************************)
C18_NoSilentWrap ==
    gas_call.result.kind \in {"Some", "value"} =>
        gas_call.result.value =
            CASE gas_call.op = "gas_deploy" -> ExactDeployGas
              [] gas_call.op = "gas_runtime_full" -> ExactRuntimeGas
              [] gas_call.op = "deploy_cost" ->
                    gas_call.gas * gas_calculator.gas_cost_deploy
              [] gas_call.op = "runtime_cost" ->
                    gas_call.gas * gas_calculator.gas_cost_runtime

(***************************************************************************)
(* The key tree.  A u32 has U32_BITS bits here.  The keys of a node are    *)
(* derived by HMAC from the seed and the child ids on the way from the     *)
(* root: they are written as that sequence of ids, so that different       *)
(* derivations give different keys and addresses.                          *)
(***************************************************************************)
U32_BITS == 3

\* The tree holds at most MaxKeys keys, at most MaxDepth below the root.
MaxKeys == 7

MaxDepth == 2

U32_MAX == 2 ^ U32_BITS - 1

U32_MIN == 0

\* a + b on u32
u32_add(a, b) ==
    IF a + b <= U32_MAX THEN Value(a + b)
    ELSE IF overflow_checks THEN Panicked
    ELSE Value((a + b) % (U32_MAX + 1))

\* ChainIndex::root
ChainIndex_root == <<>>

\* ChainIndex::next_in_line with the first component in place of the last
next_in_line_of_first(chain) ==
    IF chain = <<>> THEN Value(chain)
    ELSE LET first_p == u32_add(chain[1], 1)
         IN  IF first_p.kind = "panic" THEN Panicked
             ELSE Value([chain EXCEPT ![1] = first_p.value])

\* ChainIndex::next_in_line: *last_p += 1
next_in_line(chain) ==
    IF chain = <<>> THEN Value(chain)
    ELSE LET last_p == u32_add(chain[Len(chain)], 1)
         IN  IF last_p.kind = "panic" THEN Panicked
             ELSE Value([chain EXCEPT ![Len(chain)] = last_p.value])

\* ChainIndex::n_th_child
n_th_child(chain, child_id) == Append(chain, child_id)

\* ChildKeysPublic::root
ChildKeysPublic_root ==
    [csk |-> <<>>, cpk |-> <<>>, ccc |-> <<>>, cci |-> None]

\* ChildKeysPublic::n_th_child
ChildKeysPublic_n_th_child(keys, cci) ==
    [csk |-> Append(keys.csk, cci), cpk |-> Append(keys.csk, cci),
     ccc |-> Append(keys.csk, cci), cci |-> Some(cci)]

\* nssa::Address::from(&cpk)
Address_from(cpk) == cpk

\* The loop of find_next_last_child_of_id never ends.
Diverges == [kind |-> "diverges", value |-> 0]

\* unreachable!()
Unreachable == [kind |-> "unreachable", value |-> 0]

\* The loop of find_next_last_child_of_id, from one iteration on.  seen
\* holds the values of (right, left_border, right_border) the loop has been
\* in: the loop reads nothing else, so it never ends once one comes again.
RECURSIVE search(_, _, _, _, _, _)
search(tree_key_map, parent_id, right, left_border, right_border, seen) ==
    IF <<right, left_border, right_border>> \in seen THEN Diverges
    ELSE
    LET rightmost_child == n_th_child(parent_id, right)
        next == next_in_line(rightmost_child)
        now == seen \cup {<<right, left_border, right_border>>}
    IN
    IF next.kind = "panic" THEN Panicked
    ELSE
    LET rightmost_ref == rightmost_child \in DOMAIN tree_key_map
        rightmost_ref_next == next.value \in DOMAIN tree_key_map
    IN
    IF rightmost_ref /\ rightmost_ref_next
    THEN LET sum == u32_add(right, right_border)
         IN  IF sum.kind = "panic" THEN Panicked
             ELSE search(tree_key_map, parent_id, sum.value \div 2,
                         right, right_border, now)
    ELSE IF rightmost_ref /\ ~rightmost_ref_next
    THEN LET found == u32_add(right, 1)
         IN  IF found.kind = "panic" THEN Panicked ELSE Some(found.value)
    ELSE IF ~rightmost_ref /\ ~rightmost_ref_next
    THEN LET sum == u32_add(left_border, right)
         IN  IF sum.kind = "panic" THEN Panicked
             ELSE search(tree_key_map, parent_id, sum.value \div 2,
                         left_border, right, now)
    ELSE Unreachable

\* find_next_last_child_of_id numbering the first child 1 instead of 0
find_next_last_child_from_one(tree_key_map, parent_id) ==
    IF parent_id \notin DOMAIN tree_key_map THEN None
    ELSE IF n_th_child(parent_id, U32_MIN) \notin DOMAIN tree_key_map
    THEN Some(1)
    ELSE search(tree_key_map, parent_id, U32_MAX - 1, U32_MIN, U32_MAX, {})

\* KeyTreePublic::find_next_last_child_of_id
find_next_last_child_of_id(tree_key_map, parent_id) ==
    IF parent_id \notin DOMAIN tree_key_map THEN None
    ELSE IF n_th_child(parent_id, U32_MIN) \notin DOMAIN tree_key_map
    THEN Some(0)
    ELSE search(tree_key_map, parent_id, U32_MAX - 1, U32_MIN, U32_MAX, {})

\* map.insert(key, value)
insert(map, key, value) ==
    [k \in (DOMAIN map) \cup {key} |-> IF k = key THEN value ELSE map[k]]

TreeResult(result, tree_key_map, tree_addr_map) ==
    [result |-> result, key_map |-> tree_key_map, addr_map |-> tree_addr_map]

\* generate_new_pub_keys making the keys of a parent that is not in key_map
\* from the root keys instead of returning None.
generate_under_any_parent(tree_key_map, tree_addr_map, parent_cci) ==
    LET father_keys == IF parent_cci \in DOMAIN tree_key_map
                       THEN tree_key_map[parent_cci] ELSE ChildKeysPublic_root
        with_parent == insert(tree_key_map, parent_cci, father_keys)
        next_child_id == find_next_last_child_of_id(with_parent, parent_cci)
    IN
    IF next_child_id.kind # "Some"
    THEN TreeResult(next_child_id, tree_key_map, tree_addr_map)
    ELSE
    LET next_cci == n_th_child(parent_cci, next_child_id.value)
        child_keys == ChildKeysPublic_n_th_child(father_keys, next_child_id.value)
        address == Address_from(child_keys.cpk)
    IN  TreeResult([kind |-> "Some", value |-> address],
                   insert(with_parent, next_cci, child_keys),
                   insert(tree_addr_map, address, next_cci))

\* KeyTreePublic::generate_new_pub_keys: the result, and the maps after it.
\* The call does not return when the search panics or never ends.
generate_new_pub_keys(tree_key_map, tree_addr_map, parent_cci) ==
    IF parent_cci \notin DOMAIN tree_key_map
    THEN TreeResult(None, tree_key_map, tree_addr_map)
    ELSE
    LET father_keys == tree_key_map[parent_cci]
        next_child_id == find_next_last_child_of_id(tree_key_map, parent_cci)
    IN
    IF next_child_id.kind # "Some"
    THEN TreeResult(next_child_id, tree_key_map, tree_addr_map)
    ELSE
    LET next_cci == n_th_child(parent_cci, next_child_id.value)
        child_keys == ChildKeysPublic_n_th_child(father_keys, next_child_id.value)
        address == Address_from(child_keys.cpk)
    IN  TreeResult([kind |-> "Some", value |-> address],
                   insert(tree_key_map, next_cci, child_keys),
                   insert(tree_addr_map, address, next_cci))

\* KeyTreePublic::new
KeyTreePublic_new ==
    [key_map |-> insert(<<>>, ChainIndex_root, ChildKeysPublic_root),
     addr_map |-> insert(<<>>, Address_from(ChildKeysPublic_root.cpk),
                         ChainIndex_root)]

\* The parents asked about: every key of the tree, and for each its child
\* ids 0 and U32_MAX, whether present or not.
TreeParents ==
    (DOMAIN key_map)
        \cup {n_th_child(parent, child_id) :
                parent \in DOMAIN key_map, child_id \in {U32_MIN, U32_MAX}}

TreeCall(op, parent_id, result, key_map_before, addr_map_before) ==
    [op |-> op, parent_id |-> parent_id, result |-> result,
     key_map_before |-> key_map_before, addr_map_before |-> addr_map_before]

InitTree ==
    /\ EngineInit
    /\ CodecIdle
    /\ GasIdle
    /\ RestIdle
    /\ overflow_checks \in BOOLEAN
    /\ key_map = KeyTreePublic_new.key_map
    /\ addr_map = KeyTreePublic_new.addr_map
    /\ tree_call = TreeCall("none", ChainIndex_root, None, key_map, addr_map)

FindNextLastChild(parent_id) ==
    /\ tree_call' = TreeCall("find_next_last_child_of_id", parent_id,
                             find_next_last_child_of_id(key_map, parent_id),
                             key_map, addr_map)
    /\ UNCHANGED <<key_map, addr_map>>

GenerateNewPubKeys(parent_cci) ==
    /\ Cardinality(DOMAIN key_map) < MaxKeys
    /\ Len(parent_cci) < MaxDepth
    /\ LET generated == generate_new_pub_keys(key_map, addr_map, parent_cci)
       IN  /\ key_map' = generated.key_map
           /\ addr_map' = generated.addr_map
           /\ tree_call' = TreeCall("generate_new_pub_keys", parent_cci,
                                    generated.result, key_map, addr_map)

NextTree ==
    /\ \/ \E parent_id \in TreeParents : FindNextLastChild(parent_id)
       \/ \E parent_cci \in TreeParents : GenerateNewPubKeys(parent_cci)
    /\ UNCHANGED <<engine_vars, codec_vars, overflow_checks, gas_vars, rest_vars>>

SpecTree == InitTree /\ [][NextTree]_vars

\* The children generated under parent_id: the smallest child id absent.
RECURSIVE FirstAbsentChild(_, _, _)
FirstAbsentChild(tree_key_map, parent_id, child_id) ==
    IF n_th_child(parent_id, child_id) \notin DOMAIN tree_key_map THEN child_id
    ELSE IF child_id = U32_MAX THEN U32_MAX + 1
    ELSE FirstAbsentChild(tree_key_map, parent_id, child_id + 1)

NumChildren(tree_key_map, parent_id) ==
    FirstAbsentChild(tree_key_map, parent_id, 0)

(***************************************************************************)
(* C19: in a tree built by KeyTreePublic::new and generate_new_pub_keys,   *)
(* find_next_last_child_of_id(p) returns None when p is not in key_map and *)
(* otherwise Some(k), k being the number of children generated under p:    *)
(* the smallest child id i with p.n_th_child(i) absent.                    *)
(***************************************************************************)
C19_FindsNumberOfChildren ==
    tree_call.op = "find_next_last_child_of_id" =>
        IF tree_call.parent_id \notin DOMAIN key_map
        THEN tree_call.result.kind = "None"
        ELSE /\ tree_call.result.kind = "Some"
             /\ tree_call.result.value = NumChildren(key_map, tree_call.parent_id)

(***************************************************************************)
(* C20: generate_new_pub_keys(p), p present with k children, adds exactly  *)
(* the key_map entry p.n_th_child(k) and the addr_map entry from the       *)
(* returned address to that index, changes no entry there was, and then    *)
(* find_next_last_child_of_id returns k+1 for p and what it returned       *)
(* before for every other key of the tree.                                 *)
(***************************************************************************)
C20_GeneratesNextChild ==
    (/\ tree_call.op = "generate_new_pub_keys"
     /\ tree_call.parent_id \in DOMAIN tree_call.key_map_before) =>
        LET p == tree_call.parent_id
            before == tree_call.key_map_before
            k == NumChildren(before, p)
            next_cci == n_th_child(p, k)
        IN  /\ tree_call.result.kind = "Some"
            /\ DOMAIN key_map = (DOMAIN before) \cup {next_cci}
            /\ next_cci \notin DOMAIN before
            /\ \A chain \in DOMAIN before : key_map[chain] = before[chain]
            /\ tree_call.result.value \notin DOMAIN tree_call.addr_map_before
            /\ addr_map = insert(tree_call.addr_map_before,
                                 tree_call.result.value, next_cci)
            /\ find_next_last_child_of_id(key_map, p).kind = "Some"
            /\ find_next_last_child_of_id(key_map, p).value = k + 1
            /\ \A q \in (DOMAIN before) \ {p} :
                    find_next_last_child_of_id(key_map, q)
                        = find_next_last_child_of_id(before, q)

(***************************************************************************)
(* C21: generate_new_pub_keys(p) for a chain index p that is not in        *)
(* key_map returns None and leaves key_map and addr_map as they were, so   *)
(* that find_next_last_child_of_id answers as it did before.               *)
(***************************************************************************)
C21_AbsentParentRefused ==
    (/\ tree_call.op = "generate_new_pub_keys"
     /\ tree_call.parent_id \notin DOMAIN tree_call.key_map_before) =>
        /\ tree_call.result.kind = "None"
        /\ key_map = tree_call.key_map_before
        /\ addr_map = tree_call.addr_map_before
        /\ \A q \in TreeParents \cup {tree_call.parent_id} :
                find_next_last_child_of_id(key_map, q)
                    = find_next_last_child_of_id(tree_call.key_map_before, q)

\* A tree with children under the root, asked for a child of the absent key
\* with the highest child id: None.
C21_Witness ==
    /\ tree_call.op = "generate_new_pub_keys"
    /\ tree_call.parent_id = n_th_child(ChainIndex_root, U32_MAX)
    /\ tree_call.parent_id \notin DOMAIN key_map
    /\ n_th_child(ChainIndex_root, 1) \in DOMAIN key_map
    /\ tree_call.result.kind = "None"

(***************************************************************************)
(* ChainIndex: its string form and its two steps.  A string is a sequence  *)
(* of characters.                                                          *)
(***************************************************************************)
\* A chain index given to a call has at most MaxChain components.
MaxChain == 2

HEX_CHARS_LOWER ==
    <<"0", "1", "2", "3", "4", "5", "6", "7", "8", "9", "a", "b", "c", "d", "e", "f">>

HEX_CHARS_UPPER ==
    <<"0", "1", "2", "3", "4", "5", "6", "7", "8", "9", "A", "B", "C", "D", "E", "F">>

RECURSIVE Flatten(_)
Flatten(seqs) ==
    IF seqs = <<>> THEN <<>> ELSE Head(seqs) \o Flatten(Tail(seqs))

\* hex::encode: two lower-case digits per byte, the high one first
hex_encode(bytes) ==
    Flatten([i \in DOMAIN bytes |->
                <<HEX_CHARS_LOWER[(bytes[i] \div 16) + 1],
                  HEX_CHARS_LOWER[(bytes[i] % 16) + 1]>>])

\* The value of a hex digit of either case, or 16 for any other character.
hex_val(c) ==
    IF \E v \in DOMAIN HEX_CHARS_LOWER : HEX_CHARS_LOWER[v] = c
    THEN (CHOOSE v \in DOMAIN HEX_CHARS_LOWER : HEX_CHARS_LOWER[v] = c) - 1
    ELSE IF \E v \in DOMAIN HEX_CHARS_UPPER : HEX_CHARS_UPPER[v] = c
    THEN (CHOOSE v \in DOMAIN HEX_CHARS_UPPER : HEX_CHARS_UPPER[v] = c) - 1
    ELSE 16

ChainOk(chain) == [kind |-> "Ok", value |-> chain]

\* error: OddLength, InvalidHexCharacter or InvalidStringLength
ChainErr(error) == [kind |-> error, value |-> <<>>]

\* hex::decode
hex_decode(s) ==
    IF Len(s) % 2 # 0 THEN ChainErr("OddLength")
    ELSE IF \E i \in DOMAIN s : hex_val(s[i]) = 16
    THEN ChainErr("InvalidHexCharacter")
    ELSE ChainOk([i \in 1..(Len(s) \div 2) |->
                    16 * hex_val(s[2 * i - 1]) + hex_val(s[2 * i])])

\* ChainIndex::from_str
from_str(s) ==
    IF s = <<>> THEN ChainOk(<<>>)
    ELSE LET hex_decoded == hex_decode(s)
         IN  IF hex_decoded.kind # "Ok" THEN hex_decoded
             ELSE IF Len(hex_decoded.value) % U32_LEN # 0
             THEN ChainErr("InvalidStringLength")
             ELSE ChainOk([i \in 1..(Len(hex_decoded.value) \div U32_LEN) |->
                            u32_from_le_bytes(
                                SubSeq(hex_decoded.value,
                                       U32_LEN * (i - 1) + 1, U32_LEN * i))])

\* index.to_be_bytes() in place of index.to_le_bytes()
u32_to_be_bytes(n) ==
    <<(n \div 16777216) % 256, (n \div 65536) % 256, (n \div 256) % 256, n % 256>>

to_string_big_endian(chain) ==
    IF chain = <<>> THEN <<>>
    ELSE hex_encode(Flatten([i \in DOMAIN chain |-> u32_to_be_bytes(chain[i])]))

\* ChainIndex::to_string
to_string(chain) ==
    IF chain = <<>> THEN <<>>
    ELSE hex_encode(Flatten([i \in DOMAIN chain |-> u32_to_le_bytes(chain[i])]))

\* The components written: one-byte values, 257 (test_chain_id_deser_correct)
\* and one with four different bytes.
WrittenComponents == {0, 1, 257, 16909060}

WrittenChains == SeqsUpTo(WrittenComponents, MaxChain)

\* The strings read: what to_string writes, whole or cut short, the same with
\* one character replaced, and one with an upper-case digit.
ReadStrings ==
    LET written == {to_string(chain) : chain \in WrittenChains}
        cut == UNION {{SubSeq(text, 1, n) : n \in 0..Len(text)} : text \in written}
    IN  cut \cup {[text EXCEPT ![1] = "g"] : text \in cut \ {<<>>}}
            \cup {<<"0", "A", "0", "0", "0", "0", "0", "0">>}

\* The chain indices stepped: components up to U32_MAX.
SteppedChains == SeqsUpTo(0..U32_MAX, MaxChain)

ChainCall(op, chain, child_id, text, result) ==
    [op |-> op, chain |-> chain, child_id |-> child_id, text |-> text,
     result |-> result]

InitChain ==
    /\ EngineInit
    /\ CodecIdle
    /\ GasIdle
    /\ TreeIdle
    /\ ProgramSound
    /\ UserIdle
    /\ SequencerIdle
    /\ overflow_checks \in BOOLEAN
    /\ chain_call = ChainCall("none", <<>>, 0, <<>>, ChainOk(<<>>))

ChainToString(chain) ==
    chain_call' = ChainCall("to_string", chain, 0, to_string(chain), ChainOk(<<>>))

\* from_str of what to_string returned
FromStrOfToString ==
    /\ chain_call.op = "to_string"
    /\ chain_call' = ChainCall("from_str_of_to_string", chain_call.chain, 0,
                               chain_call.text, from_str(chain_call.text))

FromStr(s) ==
    chain_call' = ChainCall("from_str", <<>>, 0, s, from_str(s))

NextInLine(chain) ==
    chain_call' = ChainCall("next_in_line", chain, 0, <<>>, next_in_line(chain))

\* parent.n_th_child(child_id).next_in_line()
NextInLineOfChild(parent, child_id) ==
    chain_call' = ChainCall("next_in_line_of_child", parent, child_id, <<>>,
                            next_in_line(n_th_child(parent, child_id)))

\* One call on a chain index or a string, then from_str of a written string.
NextChain ==
    /\ \/ chain_call.op = "none" /\ \E chain \in WrittenChains : ChainToString(chain)
       \/ FromStrOfToString
       \/ chain_call.op = "none" /\ \E s \in ReadStrings : FromStr(s)
       \/ chain_call.op = "none" /\ \E chain \in SteppedChains : NextInLine(chain)
       \/ /\ chain_call.op = "none"
          /\ \E parent \in SteppedChains : \E child_id \in 0..U32_MAX :
                NextInLineOfChild(parent, child_id)
    /\ UNCHANGED <<engine_vars, codec_vars, overflow_checks, gas_vars, tree_vars,
                   faulty_program, user_vars, seq_vars>>

SpecChain == InitChain /\ [][NextChain]_vars

(***************************************************************************)
(* C22: for every chain index c, the root included, from_str(to_string(c)) *)
(* is c; the root is written as the empty string; every component is       *)
(* written as 4 bytes, lowest first, in hex; and from_str refuses a hex    *)
(* string whose number of bytes is not a multiple of 4.                    *)
(***************************************************************************)
\* Byte j (from 0, lowest first) of component i, as two lower-case digits.
ComponentByteText(chain, i, j) ==
    LET byte == (chain[i] \div (256 ^ j)) % 256
    IN  <<HEX_CHARS_LOWER[(byte \div 16) + 1], HEX_CHARS_LOWER[(byte % 16) + 1]>>

IsHexText(s) == \A i \in DOMAIN s : hex_val(s[i]) < 16

C22_StringRoundTrip ==
    /\ chain_call.op = "from_str_of_to_string" =>
            /\ chain_call.result.kind = "Ok"
            /\ chain_call.result.value = chain_call.chain
    /\ chain_call.op \in {"to_string", "from_str_of_to_string"} =>
            /\ (chain_call.chain = <<>>) <=> (chain_call.text = <<>>)
            /\ Len(chain_call.text) = 2 * U32_LEN * Len(chain_call.chain)
            /\ \A i \in DOMAIN chain_call.chain : \A j \in 0..(U32_LEN - 1) :
                    SubSeq(chain_call.text,
                           2 * U32_LEN * (i - 1) + 2 * j + 1,
                           2 * U32_LEN * (i - 1) + 2 * j + 2)
                        = ComponentByteText(chain_call.chain, i, j)
    /\ (/\ chain_call.op = "from_str"
        /\ IsHexText(chain_call.text)
        /\ Len(chain_call.text) % 2 = 0
        /\ (Len(chain_call.text) \div 2) % 4 # 0) =>
            chain_call.result.kind = "InvalidStringLength"

\* The chain <<257, 16909060>>, written and read back.
C22_Witness ==
    /\ chain_call.op = "from_str_of_to_string"
    /\ chain_call.chain = <<257, 16909060>>
    /\ SubSeq(chain_call.text, 1, 8) = <<"0", "1", "0", "1", "0", "0", "0", "0">>
    /\ chain_call.result.kind = "Ok"

\* Six hex-encoded bytes: refused.
SixBytesRefused ==
    /\ chain_call.op = "from_str"
    /\ IsHexText(chain_call.text)
    /\ Len(chain_call.text) = 12
    /\ chain_call.result.kind = "InvalidStringLength"

(***************************************************************************)
(* C26: for every chain index p and child id i below u32::MAX,             *)
(* p.n_th_child(i).next_in_line() is p.n_th_child(i+1): next_in_line adds  *)
(* 1 to the last component and leaves the others, n_th_child appends one   *)
(* component, and next_in_line of the root is the root.                    *)
(***************************************************************************)
C26_NextInLineOfChild ==
    /\ (chain_call.op = "next_in_line_of_child" /\ chain_call.child_id < U32_MAX) =>
            /\ chain_call.result.kind = "value"
            /\ chain_call.result.value
                    = n_th_child(chain_call.chain, chain_call.child_id + 1)
            /\ Len(chain_call.result.value) = Len(chain_call.chain) + 1
            /\ SubSeq(chain_call.result.value, 1, Len(chain_call.chain))
                    = chain_call.chain
            /\ chain_call.result.value[Len(chain_call.chain) + 1]
                    = chain_call.child_id + 1
    /\ (chain_call.op = "next_in_line" /\ chain_call.chain = <<>>) =>
            (chain_call.result.kind = "value" /\ chain_call.result.value = <<>>)
    /\ (/\ chain_call.op = "next_in_line"
        /\ chain_call.chain # <<>>
        /\ chain_call.chain[Len(chain_call.chain)] < U32_MAX) =>
            /\ chain_call.result.kind = "value"
            /\ Len(chain_call.result.value) = Len(chain_call.chain)
            /\ \A i \in DOMAIN chain_call.chain :
                    chain_call.result.value[i] =
                        IF i = Len(chain_call.chain) THEN chain_call.chain[i] + 1
                        ELSE chain_call.chain[i]

\* The step from child 1 to child 2 of a parent with two different components.
C26_Witness ==
    /\ chain_call.op = "next_in_line_of_child"
    /\ chain_call.chain = <<0, 1>>
    /\ chain_call.child_id = 1
    /\ chain_call.result.value = <<0, 1, 2>>

\* next_in_line of the root
RootNextInLine ==
    /\ chain_call.op = "next_in_line"
    /\ chain_call.chain = <<>>
    /\ chain_call.result.value = <<>>

(***************************************************************************)
(* NSSAUserData: the accounts a wallet keeps, a map from address to        *)
(* account.                                                                *)
(***************************************************************************)
\* A balance held or written is at most MaxBalance.
MaxBalance == 2

\* HashMap::new()
NSSAUserData_new == <<>>

\* accounts.get(address).map(|acc| acc.balance).unwrap_or(0)
get_account_balance(user_accounts, address) ==
    IF address \in DOMAIN user_accounts THEN user_accounts[address].balance ELSE 0

\* accounts.insert(address, Account::default())
generate_new_account(user_accounts, address) ==
    insert(user_accounts, address, AccountDefault)

\* accounts.entry(address).and_modify(|acc| acc.balance = new_balance).or_default():
\* an entry that is there takes the new balance, one that is not is filled
\* with Account::default().
update_account_balance(user_accounts, address, new_balance) ==
    IF address \in DOMAIN user_accounts
    THEN [user_accounts EXCEPT ![address].balance = new_balance]
    ELSE insert(user_accounts, address, AccountDefault)

\* The maps new_with_accounts can be given: any accounts at any addresses.
UserAccountMaps ==
    UNION {[held -> {[AccountDefault EXCEPT !.balance = b] : b \in 0..MaxBalance}] :
            held \in SUBSET Addresses}

UserCall(op, address, new_balance, accounts_before) ==
    [op |-> op, address |-> address, new_balance |-> new_balance,
     accounts_before |-> accounts_before]

InitUser ==
    /\ EngineInit
    /\ CodecIdle
    /\ GasIdle
    /\ TreeIdle
    /\ ProgramSound
    /\ ChainIdle
    /\ SequencerIdle
    /\ overflow_checks = TRUE
    /\ accounts \in {NSSAUserData_new} \cup UserAccountMaps
    /\ user_call = UserCall("none", "a1", 0, accounts)

\* generate_new_account: the key holder makes an address it has not made before
GenerateNewAccount ==
    \E address \in Addresses \ DOMAIN accounts :
        /\ accounts' = generate_new_account(accounts, address)
        /\ user_call' = UserCall("generate_new_account", address, 0, accounts)

UpdateAccountBalance(address, new_balance) ==
    /\ accounts' = update_account_balance(accounts, address, new_balance)
    /\ user_call' = UserCall("update_account_balance", address, new_balance, accounts)

NextUser ==
    /\ \/ GenerateNewAccount
       \/ \E address \in Addresses : \E new_balance \in 0..MaxBalance :
            UpdateAccountBalance(address, new_balance)
    /\ UNCHANGED <<engine_vars, codec_vars, overflow_checks, gas_vars, tree_vars,
                   faulty_program, chain_vars, seq_vars>>

SpecUser == InitUser /\ [][NextUser]_vars

(***************************************************************************)
(* C23: after update_account_balance(address, new_balance), for any        *)
(* address, with or without an account there before,                       *)
(* get_account_balance(address) is new_balance, and the balance of every   *)
(* other address is what it was.                                           *)
(***************************************************************************)
C23_UpdateSetsBalance ==
    user_call.op = "update_account_balance" =>
        /\ get_account_balance(accounts, user_call.address) = user_call.new_balance
        /\ \A other \in Addresses \ {user_call.address} :
                get_account_balance(accounts, other)
                    = get_account_balance(user_call.accounts_before, other)

(***************************************************************************)
(* The engine with a program that may break its contract.                  *)
(***************************************************************************)
InitFaulty ==
    /\ EngineInit
    /\ CodecIdle
    /\ overflow_checks = TRUE
    /\ GasIdle
    /\ TreeIdle
    /\ ChainIdle
    /\ UserIdle
    /\ SequencerIdle
    /\ faulty_program \in BOOLEAN

SpecFaulty == InitFaulty /\ [][Next]_vars

(***************************************************************************)
(* C24: the engine compares the number of post-states with the number of   *)
(* pre-states before it calls validate_constraints, so the validator is    *)
(* never called with sequences of different lengths; a call whose program  *)
(* returned a different number of post-states is rejected and changes      *)
(* nothing.                                                                *)
(***************************************************************************)
C24_LengthCheckedBeforeValidation ==
    Returned =>
        /\ call_trace.validated # <<>> =>
                call_trace.validated[1] = call_trace.validated[2]
        /\ call_trace.stage = "post_states" =>
                (call_result = "Err" /\ public_state = pre_state)

(***************************************************************************)
(* The sequencer runner: the sequencer core behind one mutex, shared by    *)
(* the block-production task and the handlers of the RPC server.           *)
(* seq_lock is the task that holds the mutex, or "free"; seq_pc is where   *)
(* each task is; mempool is the number of transactions waiting; block_id   *)
(* is the id of the last block.                                            *)
(***************************************************************************)
\* At most MaxMempool transactions wait, and at most MaxBlockId blocks are made.
MaxMempool == 2

MaxBlockId == 2

BlockTask == "block"

RpcHandlers == {"rpc1", "rpc2"}

SequencerTasks == {BlockTask} \cup RpcHandlers

\* The guard is kept to the end of the loop instead of the end of the block.
keep_guard(lock, task) == lock

\* The end of the block that holds `state`: the guard is dropped.
drop_guard(lock, task) == IF lock = task THEN "free" ELSE lock

\* seq_core_wrapped.lock().await returns once nobody holds the mutex
lock_acquired(lock, task) == lock = "free"

InitSequencer ==
    /\ EngineInit
    /\ CodecIdle
    /\ GasIdle
    /\ TreeIdle
    /\ ProgramSound
    /\ ChainIdle
    /\ UserIdle
    /\ overflow_checks = TRUE
    /\ seq_lock = "free"
    /\ seq_pc = [t \in SequencerTasks |-> IF t = BlockTask THEN "sleep" ELSE "idle"]
    /\ mempool = 0
    /\ block_id = 0

\* tokio::time::sleep(block_timeout).await returns; the task asks for the mutex
BlockWake ==
    /\ seq_pc[BlockTask] = "sleep"
    /\ block_id < MaxBlockId
    /\ seq_pc' = [seq_pc EXCEPT ![BlockTask] = "lock"]
    /\ UNCHANGED <<seq_lock, mempool, block_id>>

\* let mut state = seq_core_wrapped.lock().await
BlockLock ==
    /\ seq_pc[BlockTask] = "lock"
    /\ lock_acquired(seq_lock, BlockTask)
    /\ seq_lock' = BlockTask
    /\ seq_pc' = [seq_pc EXCEPT ![BlockTask] = "produce"]
    /\ UNCHANGED <<mempool, block_id>>

\* state.produce_new_block_with_mempool_transactions() returns Ok(id): the
\* block is made of the waiting transactions, the guard is dropped and the
\* task sleeps again.
BlockProduce ==
    /\ seq_pc[BlockTask] = "produce"
    /\ mempool' = 0
    /\ block_id' = block_id + 1
    /\ seq_lock' = drop_guard(seq_lock, BlockTask)
    /\ seq_pc' = [seq_pc EXCEPT ![BlockTask] = "sleep"]

\* The same call returns Err: `?` leaves the task, dropping the guard.
BlockProduceFails ==
    /\ seq_pc[BlockTask] = "produce"
    /\ seq_lock' = drop_guard(seq_lock, BlockTask)
    /\ seq_pc' = [seq_pc EXCEPT ![BlockTask] = "done"]
    /\ UNCHANGED <<mempool, block_id>>

\* A request arrives; its handler asks for the mutex.
RpcRequest(h) ==
    /\ seq_pc[h] = "idle"
    /\ seq_pc' = [seq_pc EXCEPT ![h] = "lock"]
    /\ UNCHANGED <<seq_lock, mempool, block_id>>

RpcLock(h) ==
    /\ seq_pc[h] = "lock"
    /\ lock_acquired(seq_lock, h)
    /\ seq_lock' = h
    /\ seq_pc' = [seq_pc EXCEPT ![h] = "access"]
    /\ UNCHANGED <<mempool, block_id>>

\* The handler reads the core, or puts a transaction into the mempool, and
\* drops the guard.
RpcAccess(h) ==
    /\ seq_pc[h] = "access"
    /\ \/ UNCHANGED mempool
       \/ mempool < MaxMempool /\ mempool' = mempool + 1
    /\ seq_lock' = drop_guard(seq_lock, h)
    /\ seq_pc' = [seq_pc EXCEPT ![h] = "idle"]
    /\ UNCHANGED block_id

NextSequencer ==
    /\ \/ BlockWake
       \/ BlockLock
       \/ BlockProduce
       \/ BlockProduceFails
       \/ \E h \in RpcHandlers : RpcRequest(h)
       \/ \E h \in RpcHandlers : RpcLock(h)
       \/ \E h \in RpcHandlers : RpcAccess(h)
    /\ UNCHANGED <<engine_vars, codec_vars, overflow_checks, gas_vars, tree_vars,
                   faulty_program, chain_vars, user_vars>>

SpecSequencer == InitSequencer /\ [][NextSequencer]_vars

(***************************************************************************)
(* C25: the sequencer core is accessed only by the task that holds its     *)
(* mutex, so the block-production task and the RPC handlers never access   *)
(* it at the same time; the block-production task holds the mutex only for *)
(* the produce call: never while it sleeps through the block timeout.      *)
(***************************************************************************)
\* The task is inside a call on the sequencer core.
Accessing(task) == seq_pc[task] \in {"produce", "access"}

C25_CoreAccessedUnderLock ==
    /\ \A task \in SequencerTasks : Accessing(task) => seq_lock = task
    /\ \A t1, t2 \in SequencerTasks : (Accessing(t1) /\ Accessing(t2)) => t1 = t2
    /\ seq_lock = BlockTask <=> seq_pc[BlockTask] = "produce"

\* After a block, the block task sleeps while a handler holds the mutex and
\* the other handler waits for it.
C25_Witness ==
    /\ block_id > 0
    /\ seq_pc[BlockTask] = "sleep"
    /\ \E h \in RpcHandlers : seq_lock = h /\ Accessing(h)
    /\ \E h \in RpcHandlers : seq_pc[h] = "lock"

(***************************************************************************)
(* C27: in every tree built by KeyTreePublic::new and                      *)
(* generate_new_pub_keys, the parent of every key but the root is in       *)
(* key_map and the child ids under each key are 0, 1, ..., with no gap;    *)
(* so find_next_last_child_of_id never meets a child that is absent while  *)
(* the next one is present, and never takes its unreachable!() arm.        *)
(***************************************************************************)
ParentOf(chain) == SubSeq(chain, 1, Len(chain) - 1)

LastOf(chain) == chain[Len(chain)]

\* The search of parent_id meets an absent child followed by a present one.
GapUnder(tree_key_map, parent_id) ==
    \E child_id \in 0..(U32_MAX - 1) :
        /\ n_th_child(parent_id, child_id) \notin DOMAIN tree_key_map
        /\ n_th_child(parent_id, child_id + 1) \in DOMAIN tree_key_map

C27_ChildrenContiguous ==
    /\ \A chain \in DOMAIN key_map :
            chain # ChainIndex_root =>
                /\ ParentOf(chain) \in DOMAIN key_map
                /\ LastOf(chain) > 0 =>
                        n_th_child(ParentOf(chain), LastOf(chain) - 1) \in DOMAIN key_map
    /\ \A parent_id \in TreeParents :
            /\ ~GapUnder(key_map, parent_id)
            /\ find_next_last_child_of_id(key_map, parent_id).kind # "unreachable"
    /\ tree_call.result.kind # "unreachable"

\* A tree with three children of the root and a grandchild, just searched.
C27_Witness ==
    /\ tree_call.op = "find_next_last_child_of_id"
    /\ tree_call.parent_id = ChainIndex_root
    /\ tree_call.result.kind = "Some"
    /\ tree_call.result.value = 3
    /\ <<0, 0>> \in DOMAIN key_map

(***************************************************************************)
(* C28: for every tree built by KeyTreePublic::new and                     *)
(* generate_new_pub_keys and every parent in it, the loop of               *)
(* find_next_last_child_of_id comes to an end.                             *)
(***************************************************************************)
C28_SearchTerminates ==
    (/\ tree_call.op \in {"find_next_last_child_of_id", "generate_new_pub_keys"}
     /\ tree_call.parent_id \in DOMAIN tree_call.key_map_before) =>
        tree_call.result.kind # "diverges"

(***************************************************************************)
(* C29: in find_next_last_child_of_id, right + right_border,               *)
(* left_border + right and right + 1 stay within u32 for every tree built  *)
(* by KeyTreePublic::new and generate_new_pub_keys, also for a parent with *)
(* more than half of the child ids in use, and next_in_line is never       *)
(* applied to a chain index that ends in u32::MAX: in the build that       *)
(* checks overflow, no call panics.                                        *)
(***************************************************************************)
C29_NoOverflowInSearch ==
    (/\ overflow_checks
     /\ tree_call.op \in {"find_next_last_child_of_id", "generate_new_pub_keys"}) =>
        tree_call.result.kind # "panic"

====
